---- MODULE Spec2Model ----
(***************************************************************************)
(* A model of turtle_adventure.py: the player, the waypoint, Home, the     *)
(* enemies' movement state machines, the enemy generator's timers and      *)
(* the two game-over calls.                                                *)
(*                                                                         *)
(* Coordinates are integers.  A half size (size/2) is kept exact by        *)
(* doubling both sides of a comparison.  A unit vector is kept exact by    *)
(* drawing the inputs so that the hypotenuse is an integer and divides     *)
(* speed * delta (see Exact); the screen is a 4:3 rectangle, so that the   *)
(* cross enemy's diagonal is a 3-4-5 direction.                            *)
(*                                                                         *)
(* gamelib (Game.animate, stop, add_element) and tkinter's after() are     *)
(* not part of turtle_adventure.py.  They are modelled after the           *)
(* specification: one update pass per tick over every element in           *)
(* registration order, no further tick once stop() was called, one-shot    *)
(* timers served in order of their delay.                                  *)
(***************************************************************************)
EXTENDS Integers, Sequences, FiniteSets, TLC

VARIABLES
    level,        \* TurtleAdventureGame.level
    player,       \* [x, y]: the turtle's position
    waypoint,     \* [x, y, active]
    elements,     \* the enemies among Game's elements, in registration order
    is_started,   \* Game's animation flag, cleared by stop()
    banners,      \* the texts created on the canvas by game_over_win/lose
    timers,       \* pending after() callbacks
    fired,        \* the callbacks that have run, in order
    pc,           \* 0 between callbacks; i: enemy i is the next to update
    ticks,        \* update passes begun
    clicks,       \* click events handled
    liveCount,    \* enemies added before any game_over call
    probe         \* inputs and result of a function applied on its own

vars == <<level, player, waypoint, elements, is_started, banners, timers,
          fired, pc, ticks, clicks, liveCount, probe>>

----------------------------------------------------------------------------
(* Bounds of the model *)

MaxTicks == 8

MaxClicks == 1

MaxLevel == 24

MaxNegLevel == 3

MaxProbe == 6
MaxCrossWidth == 40
MaxCrossHeight == 40
MaxDraw == 30
MaxGrow == 1
MaxPatrolWidth == 4
MaxPatrolHeight == 4
MaxReach == 15
MaxArriveClicks == 1

----------------------------------------------------------------------------
(* Configuration and program constants *)

ScreenWidth == 180

ScreenHeight == 135

SessionLevel == 1

PlayerSpeed == 5

PlayerStartX == 50

HomeOffsetX == 100

HomeSize == 20

RandomWalkSize == 15

ChasingSize == 20

FencingSize == 10

CrossSize == 25

ChasingSpeed == 2

BaselineDelay == 100

SubWaveDelay == 10000

SubWaveCount == 3

SubWaveDivisor == 4

----------------------------------------------------------------------------
(* Arithmetic *)

Min(a, b) == IF a < b THEN a ELSE b

Abs(a) == IF a < 0 THEN -a ELSE a

\* math.ceil(a / b) for b > 0
CeilDiv(a, b) == -((-a) \div b)

\* (dx**2 + dy**2)**0.5 where it is an integer, else its floor
Hypot(dx, dy) ==
    LET n == dx * dx + dy * dy
    IN  CHOOSE r \in 0..(Abs(dx) + Abs(dy)) : r * r <= n /\ (r + 1) * (r + 1) > n

\* the inputs for which speed * (delta / hypotenuse) is an integer
Exact(dx, dy, speed) ==
    LET h == Hypot(dx, dy)
    IN  /\ h * h = dx * dx + dy * dy
        /\ h > 0 => ((speed * dx) % h = 0 /\ (speed * dy) % h = 0)

DistSq(x1, y1, x2, y2) == (x1 - x2) * (x1 - x2) + (y1 - y2) * (y1 - y2)

----------------------------------------------------------------------------
(* Home *)

HomeX == ScreenWidth - HomeOffsetX

HomeY == ScreenHeight \div 2

\* Home.contains: x1 <= x <= x2 and y1 <= y <= y2, the half size doubled away
Home_contains(x, y) ==
    /\ 2 * HomeX - HomeSize <= 2 * x
    /\ 2 * x <= 2 * HomeX + HomeSize
    /\ 2 * HomeY - HomeSize <= 2 * y
    /\ 2 * y <= 2 * HomeY + HomeSize

----------------------------------------------------------------------------
(* Game session: stop(), game_over_win, game_over_lose.  g is the pair     *)
(* [is_started, banners].                                                  *)

stop(g) == [g EXCEPT !.is_started = FALSE]

game_over_win(g) ==
    LET s == stop(g) IN [s EXCEPT !.banners = Append(s.banners, "You Win")]

game_over_lose_no_stop(g) == [g EXCEPT !.banners = Append(g.banners, "You Lose")]

game_over_lose(g) ==
    LET s == stop(g) IN [s EXCEPT !.banners = Append(s.banners, "You Lose")]

Won == \E i \in 1..Len(banners) : banners[i] = "You Win"

Lost == \E i \in 1..Len(banners) : banners[i] = "You Lose"

Terminal == banners # <<>>

----------------------------------------------------------------------------
(* Waypoint *)

Waypoint_activate_flag_only(w, x, y) == [w EXCEPT !.active = TRUE]

Waypoint_activate(w, x, y) == [x |-> x, y |-> y, active |-> TRUE]

Waypoint_deactivate(w) == [w EXCEPT !.active = FALSE]

----------------------------------------------------------------------------
(* Player *)

\* turtle.setheading(turtle.towards(x, y)); turtle.forward(speed):
\* towards() of the turtle's own position is heading 0, the positive x axis
forward(p, w, speed) ==
    LET dx == w.x - p.x
        dy == w.y - p.y
        h  == Hypot(dx, dy)
    IN  IF h = 0
        THEN [x |-> p.x + speed, y |-> p.y]
        ELSE [x |-> p.x + (speed * dx) \div h, y |-> p.y + (speed * dy) \div h]

\* the arrival test of Player.update
arrived_exactly(p, w, speed) == DistSq(p.x, p.y, w.x, w.y) = 0

arrived_le(p, w, speed) == DistSq(p.x, p.y, w.x, w.y) <= speed * speed

arrived(p, w, speed) == DistSq(p.x, p.y, w.x, w.y) < speed * speed

Player_update_win_after_move(p, w, g) ==
    LET q == IF w.active THEN forward(p, w, PlayerSpeed) ELSE p
    IN  [player   |-> q,
         waypoint |-> IF w.active /\ arrived(q, w, PlayerSpeed)
                      THEN Waypoint_deactivate(w) ELSE w,
         g        |-> IF Home_contains(q.x, q.y) THEN game_over_win(g) ELSE g]

\* Player.update: the result is [player, waypoint, g]
Player_update(p, w, g) ==
    LET g1 == IF Home_contains(p.x, p.y) THEN game_over_win(g) ELSE g
    IN  IF w.active
        THEN LET q == forward(p, w, PlayerSpeed)
             IN  [player   |-> q,
                  waypoint |-> IF arrived(q, w, PlayerSpeed)
                               THEN Waypoint_deactivate(w) ELSE w,
                  g        |-> g1]
        ELSE [player |-> p, waypoint |-> w, g |-> g1]

----------------------------------------------------------------------------
(* Enemies.  An enemy is a record                                          *)
(*   [kind, x, y, size, speed, state, tx, ty]                              *)
(* tx, ty: the destination (random walk), the player's location as last    *)
(* read (chasing), __x_speed and __y_speed (cross).                        *)

hits_player_closed(e, p) ==
    /\ 2 * e.x - e.size <= 2 * p.x /\ 2 * p.x <= 2 * e.x + e.size
    /\ 2 * e.y - e.size <= 2 * p.y /\ 2 * p.y <= 2 * e.y + e.size

\* Enemy.hits_player, the half size doubled away
hits_player(e, p) ==
    /\ 2 * e.x - e.size < 2 * p.x /\ 2 * p.x < 2 * e.x + e.size
    /\ 2 * e.y - e.size < 2 * p.y /\ 2 * p.y < 2 * e.y + e.size

update_axis_whole_steps(c, target, speed) ==
    IF Abs(target - c) < speed THEN c
    ELSE IF target > c THEN c + speed ELSE c - speed

update_axis_no_min(c, target, speed) ==
    IF target > c THEN c + speed ELSE c - speed

\* update_x / update_y of RandomWalkEnemy and ChasingEnemy, one axis
update_axis(c, target, speed) ==
    IF target > c
    THEN c + Min(speed, target - c)
    ELSE c - Min(speed, c - target)

RandomWalkEnemy_move_x_reached(e, d) ==
    LET tx == IF e.tx = e.x THEN d[1] ELSE e.tx
        ty == IF e.tx = e.x THEN d[2] ELSE e.ty
    IN  [e EXCEPT !.tx = tx, !.ty = ty,
                  !.x = update_axis(e.x, tx, e.speed),
                  !.y = update_axis(e.y, ty, e.speed)]

\* RandomWalkEnemy.update before the collision test; d is the gen_dest() draw
RandomWalkEnemy_move(e, d) ==
    LET tx == IF e.tx = e.x /\ e.ty = e.y THEN d[1] ELSE e.tx
        ty == IF e.tx = e.x /\ e.ty = e.y THEN d[2] ELSE e.ty
    IN  [e EXCEPT !.tx = tx, !.ty = ty,
                  !.x = update_axis(e.x, tx, e.speed),
                  !.y = update_axis(e.y, ty, e.speed)]

ChasingEnemy_move_kept_target(e, p) ==
    [e EXCEPT !.tx = p.x, !.ty = p.y,
              !.x = update_axis(e.x, e.tx, e.speed),
              !.y = update_axis(e.y, e.ty, e.speed)]

\* ChasingEnemy.update before the collision test
ChasingEnemy_move(e, p) ==
    [e EXCEPT !.tx = p.x, !.ty = p.y,
              !.x = update_axis(e.x, p.x, e.speed),
              !.y = update_axis(e.y, p.y, e.speed)]

FencingEnemy_state_right_down(e) ==
    CASE e.state = "right" ->
           IF e.x < HomeX + 20 THEN [e EXCEPT !.x = e.x + e.speed]
           ELSE [e EXCEPT !.state = "down"]
      [] e.state = "left" ->
           IF e.x > HomeX - 20 THEN [e EXCEPT !.x = e.x - e.speed]
           ELSE [e EXCEPT !.state = "down"]
      [] e.state = "up" ->
           IF e.y > HomeY - 20 THEN [e EXCEPT !.y = e.y - e.speed]
           ELSE [e EXCEPT !.state = "left"]
      [] e.state = "down" ->
           IF e.y < HomeY + 20 THEN [e EXCEPT !.y = e.y + e.speed]
           ELSE [e EXCEPT !.state = "right"]

\* FencingEnemy.move_*_state
FencingEnemy_state(e) ==
    CASE e.state = "right" ->
           IF e.x < HomeX + 20 THEN [e EXCEPT !.x = e.x + e.speed]
           ELSE [e EXCEPT !.state = "up"]
      [] e.state = "left" ->
           IF e.x > HomeX - 20 THEN [e EXCEPT !.x = e.x - e.speed]
           ELSE [e EXCEPT !.state = "down"]
      [] e.state = "up" ->
           IF e.y > HomeY - 20 THEN [e EXCEPT !.y = e.y - e.speed]
           ELSE [e EXCEPT !.state = "left"]
      [] e.state = "down" ->
           IF e.y < HomeY + 20 THEN [e EXCEPT !.y = e.y + e.speed]
           ELSE [e EXCEPT !.state = "right"]

CrossEnemy_divides_no_margin(e, W, H) ==
    IF e.state = "down" THEN H - e.y >= 0 ELSE e.y >= 0

\* the test of CrossEnemy.move_down_state / move_up_state on a canvas of
\* width W and height H: TRUE where the branch that divides is taken
CrossEnemy_divides(e, W, H) ==
    IF e.state = "down" THEN H - e.y >= 10 ELSE e.y >= 10

\* delta_x, delta_y and the hypotenuse of that branch
CrossEnemy_delta(e, W, H) ==
    LET dx == W - e.x
        dy == IF e.state = "down" THEN H - e.y ELSE e.y
    IN  [x |-> dx, y |-> dy, hypotenuse |-> Hypot(dx, dy)]

CrossEnemy_step_same_corner(e, W, H) ==
    IF e.state \notin {"down", "up"} THEN e
    ELSE IF CrossEnemy_divides(e, W, H)
    THEN LET d == CrossEnemy_delta(e, W, H)
         IN  IF d.hypotenuse = 0
             THEN [e EXCEPT !.state = "ZeroDivisionError"]
             ELSE LET xs == (e.speed * d.x) \div d.hypotenuse
                      ys == (e.speed * d.y) \div d.hypotenuse
                  IN  [e EXCEPT !.tx = xs, !.ty = ys, !.x = e.x + xs,
                                !.y = IF e.state = "down"
                                      THEN e.y + ys ELSE e.y - ys]
    ELSE IF e.state = "down"
         THEN [e EXCEPT !.x = 0, !.y = 0, !.state = "up"]
         ELSE [e EXCEPT !.x = 0, !.y = 0, !.state = "down"]

\* CrossEnemy.move_down_state / move_up_state on a canvas of width W and
\* height H.  A division by a zero hypotenuse raises ZeroDivisionError: the
\* enemy's state then names the exception and no later update changes it.
CrossEnemy_step(e, W, H) ==
    IF e.state \notin {"down", "up"} THEN e
    ELSE IF CrossEnemy_divides(e, W, H)
    THEN LET d == CrossEnemy_delta(e, W, H)
         IN  IF d.hypotenuse = 0
             THEN [e EXCEPT !.state = "ZeroDivisionError"]
             ELSE LET xs == (e.speed * d.x) \div d.hypotenuse
                      ys == (e.speed * d.y) \div d.hypotenuse
                  IN  [e EXCEPT !.tx = xs, !.ty = ys, !.x = e.x + xs,
                                !.y = IF e.state = "down"
                                      THEN e.y + ys ELSE e.y - ys]
    ELSE IF e.state = "down"
         THEN [e EXCEPT !.x = 0, !.y = H, !.state = "up"]
         ELSE [e EXCEPT !.x = 0, !.y = 0, !.state = "down"]

\* the same on the session's canvas
CrossEnemy_state(e) == CrossEnemy_step(e, ScreenWidth, ScreenHeight)

RECURSIVE Pow10(_)
Pow10(n) == IF n = 0 THEN 1 ELSE 10 * Pow10(n - 1)

\* DemoEnemy, the patrol enemy.  Its speed is multiplied by 1.1 at a border,
\* so its speed and its position are kept in units of 1 / PatrolUnit; grown
\* counts the multiplications by 1.1, which the unit allows MaxGrow of.
PatrolUnit == Pow10(MaxGrow)

check_x_border_by_y(e, W) == e.y < 0 \/ e.y > W * PatrolUnit

\* DemoEnemy.check_x_border / check_y_border
check_x_border(e, W) == e.x < 0 \/ e.x > W * PatrolUnit
check_y_border(e, H) == e.y < 0 \/ e.y > H * PatrolUnit

\* self.speed *= random.choice([1, 1.1]): f is the choice in tenths
DemoEnemy_bounce(e, f) ==
    [e EXCEPT !.speed = (e.speed * f) \div 10,
              !.grown = IF f = 11 THEN e.grown + 1 ELSE e.grown]

\* DemoEnemy.state_move_right / state_move_left
DemoEnemy_x_state(e, W, f) ==
    LET m == [e EXCEPT !.x = IF e.x_state = "right"
                              THEN e.x + e.speed ELSE e.x - e.speed]
    IN  IF check_x_border(m, W)
        THEN [DemoEnemy_bounce(m, f) EXCEPT
                 !.x_state = IF e.x_state = "right" THEN "left" ELSE "right"]
        ELSE m

\* DemoEnemy.state_move_down / state_move_up
DemoEnemy_y_state(e, H, f) ==
    LET m == [e EXCEPT !.y = IF e.y_state = "down"
                              THEN e.y + e.speed ELSE e.y - e.speed]
    IN  IF check_y_border(m, H)
        THEN [DemoEnemy_bounce(m, f) EXCEPT
                 !.y_state = IF e.y_state = "down" THEN "up" ELSE "down"]
        ELSE m

\* DemoEnemy.update before the collision test: self.__x_state(), then
\* self.__y_state(); fx and fy are the random choices of the two
DemoEnemy_move(e, W, H, fx, fy) ==
    DemoEnemy_y_state(DemoEnemy_x_state(e, W, fx), H, fy)

\* the movement part of <Enemy>.update
Enemy_move(e, p, d) ==
    CASE e.kind = "random"  -> RandomWalkEnemy_move(e, d)
      [] e.kind = "chasing" -> ChasingEnemy_move(e, p)
      [] e.kind = "fencing" -> FencingEnemy_state(e)
      [] e.kind = "cross"   -> CrossEnemy_state(e)

\* <Enemy>.update: move, then if self.hits_player(): game_over_lose()
Enemy_update(e, p, g, d) ==
    LET m == Enemy_move(e, p, d)
    IN  [enemy |-> m, g |-> IF hits_player(m, p) THEN game_over_lose(g) ELSE g]

----------------------------------------------------------------------------
(* Random draws.  A draw is taken from the range the code gives             *)
(* random.randint, cut down to a sample S of values.                        *)

RandInt(a, b, S) == {v \in S : a <= v /\ v <= b}

\* the samples of the session: speeds, x, y, the fencing offset
SessionSample ==
    [speed |-> {2, 5, 15}, x |-> {60, 90}, y |-> {67}, offset |-> {20}]

\* one value per draw: the sample of the runs that only count enemies
CountSample ==
    [speed |-> {2, 15}, x |-> {90}, y |-> {67}, offset |-> {20}]

\* RandomWalkEnemy.gen_dest
gen_dest(S) ==
    RandInt(0, ScreenWidth, S.x) \X RandInt(0, ScreenHeight, S.y)

\* RandomWalkEnemy(game, 15, 'blue'): __init__ and create
RandomWalkEnemy_new(S) ==
    { [kind |-> "random", x |-> x, y |-> y, size |-> RandomWalkSize,
       speed |-> s, state |-> "seek", tx |-> d[1], ty |-> d[2]] :
        d \in gen_dest(S),
        s \in RandInt(1, 5, S.speed),
        x \in RandInt(0, ScreenWidth, S.x),
        y \in RandInt(0, ScreenHeight, S.y) }

\* ChasingEnemy(game, 20, 'red'): __init__ and create; winfo_width()/2 is a
\* whole number, the width being even
ChasingEnemy_new(S, p) ==
    { [kind |-> "chasing", x |-> x, y |-> y, size |-> ChasingSize,
       speed |-> ChasingSpeed, state |-> "track", tx |-> p.x, ty |-> p.y] :
        x \in RandInt(ScreenWidth \div 2, ScreenWidth, S.x),
        y \in RandInt(0, ScreenHeight, S.y) }

FencingEnemy_new_near(S) ==
    { [kind |-> "fencing", x |-> HomeX + ox, y |-> HomeY + oy,
       size |-> FencingSize, speed |-> s, state |-> "right",
       tx |-> 0, ty |-> 0] :
        s \in RandInt(1, 3, S.speed),
        ox \in RandInt(12, 22, S.offset),
        oy \in RandInt(12, 22, S.offset) }

\* FencingEnemy(game, 10, 'green'): __init__ and create
FencingEnemy_new(S) ==
    { [kind |-> "fencing", x |-> HomeX + ox, y |-> HomeY + oy,
       size |-> FencingSize, speed |-> s, state |-> "right",
       tx |-> 0, ty |-> 0] :
        s \in RandInt(1, 3, S.speed),
        ox \in RandInt(18, 22, S.offset),
        oy \in RandInt(18, 22, S.offset) }

\* CrossEnemy(game, 25, 'black'): __init__ and create
CrossEnemy_new(S) ==
    { [kind |-> "cross", x |-> 0, y |-> 0, size |-> CrossSize,
       speed |-> s, state |-> "down", tx |-> 0, ty |-> 0] :
        s \in RandInt(10, 15, S.speed) }

\* DemoEnemy(game, size, color) put on (x, y): __init__ and create
DemoEnemy_new(S, x, y, size) ==
    { [kind |-> "patrol", x |-> x * PatrolUnit, y |-> y * PatrolUnit,
       size |-> size, speed |-> s * PatrolUnit, x_state |-> "right",
       y_state |-> "down", grown |-> 0] : s \in RandInt(1, 5, S.speed) }

NewEnemy(kind, S, p) ==
    CASE kind = "random"  -> RandomWalkEnemy_new(S)
      [] kind = "chasing" -> ChasingEnemy_new(S, p)
      [] kind = "fencing" -> FencingEnemy_new(S)
      [] kind = "cross"   -> CrossEnemy_new(S)

----------------------------------------------------------------------------
(* EnemyGenerator.  A create_* operator gives the kinds of the enemies its  *)
(* loop constructs and adds, in order.                                      *)

RECURSIVE Repeat(_, _)
\* for _ in range(n): one enemy of the kind
Repeat(kind, n) ==
    IF n <= 0 THEN <<>> ELSE <<kind>> \o Repeat(kind, n - 1)

create_random_off(lv) == Repeat("random", 2 * lv + 1)

create_random(lv) == Repeat("random", 2 * lv - 1)

create_chasing_no_third(lv, num) ==
    LET q == IF num.n = 0 THEN [n |-> lv, d |-> 1] ELSE num
    IN  Repeat("chasing", CeilDiv(q.n, q.d))

\* create_chasing(num): num is the fraction num.n / num.d; None is 0 / 1,
\* which `not num` treats as it treats 0
create_chasing(lv, num) ==
    LET q == IF num.n = 0 THEN [n |-> lv, d |-> 1] ELSE num
    IN  Repeat("chasing", CeilDiv(q.n, 3 * q.d))

create_fencing(lv) == Repeat("fencing", CeilDiv(lv, 2))

create_cross(lv) == Repeat("cross", 3 * lv - 2)

NoArg == [n |-> 0, d |-> 1]

create_enemy(lv) ==
    create_random(lv) \o create_chasing(lv, NoArg) \o create_fencing(lv)
        \o create_cross(lv)

\* Game.after(delay, callback, arg): a one-shot timer, due `delay` after
\* the construction
after(t, delay, cb, arg) ==
    Append(t, [id |-> Len(t) + 1, delay |-> delay, cb |-> cb, arg |-> arg])

RECURSIVE after_times(_, _, _, _, _)
after_times(t, k, delay, cb, arg) ==
    IF k <= 0 THEN t
    ELSE after_times(after(t, delay, cb, arg), k - 1, delay, cb, arg)

EnemyGenerator_init_late(lv) ==
    after_times(after(<<>>, SubWaveDelay, "create_enemy", NoArg),
               SubWaveCount, BaselineDelay, "create_chasing",
               [n |-> lv, d |-> SubWaveDivisor])

\* EnemyGenerator.__init__: the timers it leaves pending
EnemyGenerator_init(lv) ==
    after_times(after(<<>>, BaselineDelay, "create_enemy", NoArg),
               SubWaveCount, SubWaveDelay, "create_chasing",
               [n |-> lv, d |-> SubWaveDivisor])

\* the timer the event loop serves next: the earliest, the first registered
\* among equals
NextTimer(t) ==
    CHOOSE i \in 1..Len(t) :
        \A j \in 1..Len(t) :
            t[i].delay < t[j].delay \/ (t[i].delay = t[j].delay /\ i <= j)

RemoveAt(t, i) == SubSeq(t, 1, i - 1) \o SubSeq(t, i + 1, Len(t))

\* timers of one delay, registered in one go, come due together: the event
\* loop serves them one after the other, before any later tick or click
DueNow(t, f) ==
    /\ t # <<>>
    /\ f # <<>>
    /\ t[NextTimer(t)].delay = f[Len(f)].delay

RECURSIVE Spawns(_, _, _)
\* the enemies a callback may construct for a sequence of kinds
Spawns(kinds, S, p) ==
    IF kinds = <<>> THEN {<<>>}
    ELSE IF Len(kinds) = 1 THEN {<<e>> : e \in NewEnemy(kinds[1], S, p)}
    ELSE LET h == Len(kinds) \div 2
         IN  { a \o b : a \in Spawns(SubSeq(kinds, 1, h), S, p),
                        b \in Spawns(SubSeq(kinds, h + 1, Len(kinds)), S, p) }

CountKind(es, kind) == Cardinality({i \in 1..Len(es) : es[i].kind = kind})

----------------------------------------------------------------------------
(* The session *)

NoProbe == [kind |-> "none"]

\* the clicks of the session: points the player reaches in exact steps
ClickSample ==
    { [x |-> 53, y |-> 67], [x |-> 50, y |-> 67], [x |-> 120, y |-> 67],
      [x |-> 80, y |-> 27] }

\* TurtleAdventureGame.__init__ / init_game, then start()
InitGame(lv) ==
    /\ level = lv
    /\ player = [x |-> PlayerStartX, y |-> ScreenHeight \div 2]
    /\ waypoint = [x |-> 0, y |-> 0, active |-> FALSE]
    /\ elements = <<>>
    /\ is_started = TRUE
    /\ banners = <<>>
    /\ timers = EnemyGenerator_init(lv)
    /\ fired = <<>>
    /\ pc = 0
    /\ ticks = 0
    /\ clicks = 0
    /\ liveCount = 0

Init == InitGame(SessionLevel) /\ probe = NoProbe

\* <Button-1>: self.waypoint.activate(e.x, e.y)
Click ==
    /\ pc = 0
    /\ ~DueNow(timers, fired)
    /\ clicks < MaxClicks
    /\ \E c \in ClickSample :
        /\ Exact(c.x - player.x, c.y - player.y, PlayerSpeed)
        /\ waypoint' = Waypoint_activate(waypoint, c.x, c.y)
    /\ clicks' = clicks + 1
    /\ UNCHANGED <<level, player, elements, is_started, banners, timers,
                   fired, pc, ticks, liveCount, probe>>

\* a timer fires: create_enemy or create_chasing, every new enemy added
Fire(S) ==
    /\ pc = 0
    /\ timers # <<>>
    /\ LET i == NextTimer(timers)
           t == timers[i]
           kinds == IF t.cb = "create_enemy"
                    THEN create_enemy(level)
                    ELSE create_chasing(level, t.arg)
       IN  /\ \E es \in Spawns(kinds, S, player) : elements' = elements \o es
           /\ timers' = RemoveAt(timers, i)
           /\ fired' = Append(fired, [id |-> t.id, delay |-> t.delay, cb |-> t.cb])
    /\ liveCount' = IF Terminal THEN liveCount ELSE Len(elements')
    /\ UNCHANGED <<level, player, waypoint, is_started, banners, pc, ticks,
                   clicks, probe>>

FireSession == Fire(SessionSample)

\* Game.animate begins a pass: the waypoint's and Home's update do nothing,
\* then Player.update
AnimateBegin ==
    /\ pc = 0
    /\ ~DueNow(timers, fired)
    /\ is_started
    /\ ticks < MaxTicks
    /\ LET r == Player_update(player, waypoint,
                             [is_started |-> is_started, banners |-> banners])
       IN  /\ player' = r.player
           /\ waypoint' = r.waypoint
           /\ is_started' = r.g.is_started
           /\ banners' = r.g.banners
    /\ ticks' = ticks + 1
    /\ pc' = IF elements = <<>> THEN 0 ELSE 1
    /\ UNCHANGED <<level, elements, timers, fired, clicks, liveCount, probe>>

\* the pass goes on: the update of enemy pc
AnimateStep(S) ==
    /\ pc >= 1
    /\ \E d \in gen_dest(S) :
        LET r == Enemy_update(elements[pc], player,
                             [is_started |-> is_started, banners |-> banners],
                             d)
        IN  /\ elements' = [elements EXCEPT ![pc] = r.enemy]
            /\ is_started' = r.g.is_started
            /\ banners' = r.g.banners
    /\ pc' = IF pc = Len(elements) THEN 0 ELSE pc + 1
    /\ UNCHANGED <<level, player, waypoint, timers, fired, ticks, clicks,
                   liveCount, probe>>

AnimateStepSession == AnimateStep(SessionSample)

Next == Click \/ FireSession \/ AnimateBegin \/ AnimateStepSession

Spec == Init /\ [][Next]_vars

----------------------------------------------------------------------------
(* The generator on its own, for every level: only the timers fire, and     *)
(* every draw has one value.                                                *)

InitCount ==
    /\ \E lv \in (-MaxNegLevel)..MaxLevel : InitGame(lv)
    /\ probe = NoProbe

FireCount == Fire(CountSample)

NextCount == FireCount

SpecCount == InitCount /\ [][NextCount]_vars

----------------------------------------------------------------------------
(* Enemy.hits_player on its own: an enemy of any size anywhere, the player  *)
(* anywhere.                                                                *)

InitHit ==
    /\ InitGame(SessionLevel)
    /\ \E ex \in 0..MaxProbe, ey \in 0..MaxProbe, size \in 0..MaxProbe,
          px \in 0..MaxProbe, py \in 0..MaxProbe :
          probe = [kind |-> "hit_in",
                   e |-> [x |-> ex, y |-> ey, size |-> size],
                   p |-> [x |-> px, y |-> py],
                   result |-> FALSE]

ApplyHit ==
    /\ probe.kind = "hit_in"
    /\ probe' = [probe EXCEPT !.kind = "hit_out",
                              !.result = hits_player(probe.e, probe.p)]
    /\ UNCHANGED <<level, player, waypoint, elements, is_started, banners,
                   timers, fired, pc, ticks, clicks, liveCount>>

NextHit == ApplyHit

SpecHit == InitHit /\ [][NextHit]_vars

----------------------------------------------------------------------------
(* One enemy on its own.  probe holds the enemy (e), the enemy before its   *)
(* last update (from, NoProbe before the first update) and the canvas       *)
(* (w, h).                                                                  *)

Lone(kind, e, W, H) ==
    [kind |-> kind, e |-> e, from |-> NoProbe, w |-> W, h |-> H]

\* <Enemy>.update of the enemy on its own, m the enemy after its movement
\* and hit the value of self.hits_player(): if hit, game_over_lose()
LoneUpdateHit(m, hit) ==
    /\ is_started
    /\ probe' = [probe EXCEPT !.e = m, !.from = probe.e]
    /\ LET g == [is_started |-> is_started, banners |-> banners]
           r == IF hit THEN game_over_lose(g) ELSE g
       IN  /\ is_started' = r.is_started
           /\ banners' = r.banners
    /\ UNCHANGED <<level, player, waypoint, elements, timers, fired, pc,
                   ticks, clicks, liveCount>>

LoneUpdate(m) == LoneUpdateHit(m, hits_player(m, player))

\* the step of an enemy on its own
LoneStep(kind) == probe.kind = kind /\ probe' # probe

----------------------------------------------------------------------------
(* The cross enemy on its own, on every canvas up to MaxCrossWidth x        *)
(* MaxCrossHeight and with every speed its create draws for which the unit  *)
(* vector of the diagonal is exact in whole numbers.                        *)

InitCross ==
    /\ InitGame(SessionLevel)
    /\ \E W \in 0..MaxCrossWidth, H \in 0..MaxCrossHeight,
          e \in CrossEnemy_new([speed |-> 10..15]) :
          /\ Exact(W, H, e.speed)
          /\ probe = Lone("cross", e, W, H)

\* CrossEnemy.update
CrossUpdate ==
    /\ probe.kind = "cross"
    /\ LoneUpdate(CrossEnemy_step(probe.e, probe.w, probe.h))

NextCross == CrossUpdate

SpecCross == InitCross /\ [][NextCross]_vars

----------------------------------------------------------------------------
(* The fencing enemy on its own around the session's Home, with every speed *)
(* and every offset its create draws.                                       *)

\* every whole number a draw may be asked for
DrawSample == [speed |-> 0..MaxDraw, offset |-> 0..MaxDraw]

InitFence ==
    /\ InitGame(SessionLevel)
    /\ \E e \in FencingEnemy_new(DrawSample) :
          probe = Lone("fencing", e, ScreenWidth, ScreenHeight)

\* FencingEnemy.update
FenceUpdate ==
    /\ probe.kind = "fencing"
    /\ LoneUpdate(FencingEnemy_state(probe.e))

NextFence == FenceUpdate

SpecFence == InitFence /\ [][NextFence]_vars

\* the update pass runs again as long as the game is started
SpecFenceFair == SpecFence /\ WF_vars(FenceUpdate)

----------------------------------------------------------------------------
(* The random-walk enemy on its own on the session's canvas: every speed    *)
(* its create draws, positions and destinations from a sample that has      *)
(* values outside the canvas too, the player's place among them.            *)

WalkSample ==
    [speed |-> 0..MaxDraw, x |-> {-1, 0, 3, 7, 50, 181},
     y |-> {-1, 0, 4, 67, 136}]

InitWalk ==
    /\ InitGame(SessionLevel)
    /\ \E e \in RandomWalkEnemy_new(WalkSample) :
          probe = Lone("random", e, ScreenWidth, ScreenHeight)

\* RandomWalkEnemy.update
WalkUpdate ==
    /\ probe.kind = "random"
    /\ \E d \in gen_dest(WalkSample) :
          LoneUpdate(RandomWalkEnemy_move(probe.e, d))

NextWalk == WalkUpdate

SpecWalk == InitWalk /\ [][NextWalk]_vars

\* the update pass runs again as long as the game is started
SpecWalkFair == SpecWalk /\ WF_vars(WalkUpdate)

----------------------------------------------------------------------------
(* The session with chasing enemies that spawn one off the player's line,   *)
(* so that an axis has less than the speed left.                            *)

ChaseSample ==
    [speed |-> {2, 15}, x |-> {91}, y |-> {66, 68}, offset |-> {20}]

FireChase == Fire(ChaseSample)

AnimateStepChase == AnimateStep(ChaseSample)

NextChase == Click \/ FireChase \/ AnimateBegin \/ AnimateStepChase

SpecChase == Init /\ [][NextChase]_vars

----------------------------------------------------------------------------
(* The patrol enemy on its own.  No create_* constructs one, so its size,   *)
(* its canvas and its first position are inputs: one of the sizes the       *)
(* generator gives, every canvas up to MaxPatrolWidth x MaxPatrolHeight and *)
(* every whole point of it.                                                 *)

InitPatrol ==
    /\ InitGame(SessionLevel)
    /\ \E W \in 0..MaxPatrolWidth, H \in 0..MaxPatrolHeight,
          size \in {RandomWalkSize, ChasingSize, FencingSize, CrossSize} :
          \E x \in 0..W, y \in 0..H :
             \E e \in DemoEnemy_new(DrawSample, x, y, size) :
                probe = Lone("patrol", e, W, H)

\* DemoEnemy.update; the player and the enemy's size in the enemy's units
PatrolUpdate ==
    /\ probe.kind = "patrol"
    /\ \E fx \in {10, 11}, fy \in {10, 11} :
          LET m == DemoEnemy_move(probe.e, probe.w, probe.h, fx, fy)
          IN  /\ m.grown <= MaxGrow
              /\ LoneUpdateHit(m,
                    hits_player([m EXCEPT !.size = m.size * PatrolUnit],
                                [x |-> player.x * PatrolUnit,
                                 y |-> player.y * PatrolUnit]))

NextPatrol == PatrolUpdate

SpecPatrol == InitPatrol /\ [][NextPatrol]_vars

----------------------------------------------------------------------------
(* The player on its way to a waypoint, before any enemy is on the canvas.  *)
(* A click lands within MaxReach of the player on a point the player        *)
(* reaches in exact steps.  probe holds the distance from the player to the *)
(* clicked point (d) and the number of Player.update calls since the click  *)
(* that began with the waypoint active (n, counted up to MaxReach).         *)

InitArrive ==
    /\ InitGame(SessionLevel)
    /\ probe = [kind |-> "arrive", d |-> 0, n |-> 0]

\* <Button-1>: self.waypoint.activate(e.x, e.y)
ClickArrive ==
    /\ probe.kind = "arrive"
    /\ clicks < MaxArriveClicks
    /\ \E dx \in (-MaxReach)..MaxReach, dy \in (-MaxReach)..MaxReach :
          LET x == player.x + dx
              y == player.y + dy
          IN  /\ 0 <= x /\ x <= ScreenWidth
              /\ 0 <= y /\ y <= ScreenHeight
              /\ Exact(dx, dy, PlayerSpeed)
              /\ waypoint' = Waypoint_activate(waypoint, x, y)
              /\ probe' = [probe EXCEPT !.d = Hypot(dx, dy), !.n = 0]
    /\ clicks' = clicks + 1
    /\ UNCHANGED <<level, player, elements, is_started, banners, timers,
                   fired, pc, ticks, liveCount>>

\* Game.animate with no enemy on the canvas: the pass is Player.update
UpdateArrive ==
    /\ probe.kind = "arrive"
    /\ is_started
    /\ LET r == Player_update(player, waypoint,
                             [is_started |-> is_started, banners |-> banners])
       IN  /\ player' = r.player
           /\ waypoint' = r.waypoint
           /\ is_started' = r.g.is_started
           /\ banners' = r.g.banners
    /\ probe' = [probe EXCEPT !.n = IF waypoint.active
                                    THEN Min(probe.n + 1, MaxReach)
                                    ELSE probe.n]
    /\ UNCHANGED <<level, elements, timers, fired, pc, ticks, clicks,
                   liveCount>>

NextArrive == ClickArrive \/ UpdateArrive

SpecArrive == InitArrive /\ [][NextArrive]_vars

\* the update pass runs again as long as the game is started
SpecArriveFair == SpecArrive /\ WF_vars(UpdateArrive)

----------------------------------------------------------------------------
(* Claims *)

\* the step that runs Player.update
PlayerStep == pc = 0 /\ ticks' = ticks + 1

\* a step of an update pass: Player.update or an enemy's update
UpdateStep == PlayerStep \/ pc >= 1

\* C1: game_over_win and game_over_lose are never both invoked in one
\* session: no state shows a "You Win" and a "You Lose" text together.
C1_WinLoseExclusive == ~(Won /\ Lost)

\* C2: the banner is drawn at most once: game_over_win and game_over_lose
\* together never create more than one text.
C2_OneBanner == Len(banners) <= 1

\* C3: a Player.update that starts with the player inside Home declares won
\* and leaves the player's position as it was.
C3_NoMoveInHome ==
    [][(PlayerStep /\ Home_contains(player.x, player.y))
          => (Won' /\ player' = player)]_vars

\* C4: once game_over_lose was invoked, no Player or Enemy update changes a
\* position, the waypoint's flag, an enemy's movement state or the outcome.
C4_FrozenAfterLost ==
    [][(Lost /\ UpdateStep)
          => /\ player' = player
             /\ waypoint' = waypoint
             /\ elements' = elements
             /\ banners' = banners]_vars

\* C5: hits_player is true exactly when the player is closer than size/2 to
\* the enemy on both axes, and false for a player on the left edge.
C5_HitsPlayerStrict ==
    probe.kind = "hit_out" =>
        /\ probe.result <=>
              /\ 2 * Abs(probe.p.x - probe.e.x) < probe.e.size
              /\ 2 * Abs(probe.p.y - probe.e.y) < probe.e.size
        /\ 2 * probe.p.x = 2 * probe.e.x - probe.e.size => ~probe.result

\* C5's case: a player on the left edge, level with the enemy, is not hit
C5_Witness ==
    /\ probe.kind = "hit_out"
    /\ probe.e.size > 0
    /\ 2 * probe.p.x = 2 * probe.e.x - probe.e.size
    /\ probe.p.y = probe.e.y
    /\ ~probe.result

Max0(n) == IF n > 0 THEN n ELSE 0

\* C6: after the baseline callback alone, the session holds max(0, 2L-1)
\* random-walk, max(0, ceil(L/3)) chasing, max(0, ceil(L/2)) fencing and
\* max(0, 3L-2) cross enemies and nothing else; 5, 1, 2 and 7 for L = 3.
C6_BaselineCounts ==
    Len(fired) = 1 =>
        /\ fired[1].cb = "create_enemy"
        /\ CountKind(elements, "random") = Max0(2 * level - 1)
        /\ CountKind(elements, "chasing") = Max0((level + 2) \div 3)
        /\ CountKind(elements, "fencing") = Max0((level + 1) \div 2)
        /\ CountKind(elements, "cross") = Max0(3 * level - 2)
        /\ Len(elements) = Max0(2 * level - 1) + Max0((level + 2) \div 3)
                           + Max0((level + 1) \div 2) + Max0(3 * level - 2)
        /\ level = 3 =>
              /\ CountKind(elements, "random") = 5
              /\ CountKind(elements, "chasing") = 1
              /\ CountKind(elements, "fencing") = 2
              /\ CountKind(elements, "cross") = 7

\* C6's case: the baseline wave of level 3 has been added
C6_Witness == level = 3 /\ Len(fired) = 1 /\ Len(elements) = 15

\* the enemies a step adds are all chasing enemies, n of them
AddsChasing(n) ==
    /\ Len(elements') = Len(elements) + n
    /\ \A i \in 1..Len(elements) : elements'[i] = elements[i]
    /\ \A i \in (Len(elements) + 1)..Len(elements') :
          elements'[i].kind = "chasing"

\* a step in which one of the 10-second callbacks runs
SubWaveStep ==
    /\ Len(fired') = Len(fired) + 1
    /\ fired'[Len(fired')].delay = SubWaveDelay

\* C7 as claimed: for a level that is a positive multiple of 4, each
\* 10-second callback adds exactly level/4 chasing enemies.
C7_SubWaveQuarter ==
    [][(SubWaveStep /\ level > 0 /\ level % 4 = 0)
          => AddsChasing(level \div 4)]_vars

\* C7 as amended: for a level that is a positive multiple of 4, each
\* 10-second callback adds exactly ceil((level/4)/3) = ceil(level/12)
\* chasing enemies and nothing else.
C7_SubWaveTwelfth ==
    [][(SubWaveStep /\ level > 0 /\ level % 4 = 0)
          => AddsChasing((level + 11) \div 12)]_vars

\* C7's case: level 8, every callback has run; the baseline added
\* ceil(8/3) = 3 chasing enemies, the three sub-waves one each
C7_Witness ==
    /\ level = 8
    /\ Len(fired) = 1 + SubWaveCount
    /\ CountKind(elements, "chasing") = 6

\* C8: four one-shot callbacks and no more; the baseline runs first, each
\* callback runs once, and after the fourth no enemy is added.
C8_FourOneShots ==
    /\ [](/\ Len(fired) + Len(timers) = 1 + SubWaveCount
          /\ \A i, j \in 1..Len(fired) : fired[i].id = fired[j].id => i = j
          /\ \A i \in 1..Len(fired) :
                (fired[i].cb = "create_enemy" /\ fired[i].delay = BaselineDelay)
                    <=> i = 1
          /\ \A i \in 2..Len(fired) :
                fired[i].cb = "create_chasing" /\ fired[i].delay = SubWaveDelay)
    /\ [][Len(fired) = 1 + SubWaveCount
             => (Len(elements') = Len(elements) /\ fired' = fired)]_vars

\* C8's case: all four callbacks have run while the game is still on
C8_Witness ==
    /\ Len(fired) = 1 + SubWaveCount
    /\ timers = <<>>
    /\ is_started
    /\ ticks > Len(fired)

\* the waypoint lies ahead of the player's step from p to q
Toward(p, q, w) ==
    /\ (q.x - p.x) * (w.y - p.y) = (q.y - p.y) * (w.x - p.x)
    /\ (q.x - p.x) * (w.x - p.x) + (q.y - p.y) * (w.y - p.y) > 0

\* C9: a Player.update with the waypoint active and the player outside Home
\* moves the player by exactly speed toward the waypoint, and deactivates
\* the waypoint exactly when the distance left is less than speed; and the
\* player deactivates the waypoint only within speed of it.
C9_StepAndArrival ==
    [][PlayerStep =>
        /\ (waypoint.active /\ ~Home_contains(player.x, player.y)) =>
              /\ DistSq(player'.x, player'.y, player.x, player.y)
                    = PlayerSpeed * PlayerSpeed
              /\ (waypoint.x # player.x \/ waypoint.y # player.y)
                    => Toward(player, player', waypoint)
              /\ waypoint'.x = waypoint.x /\ waypoint'.y = waypoint.y
              /\ ~waypoint'.active <=>
                    Hypot(waypoint.x - player'.x, waypoint.y - player'.y)
                        < PlayerSpeed
        /\ (waypoint.active /\ ~waypoint'.active) =>
              Hypot(waypoint.x - player'.x, waypoint.y - player'.y)
                  < PlayerSpeed]_vars

\* C9's case: the waypoint 3 ahead of the player; one update moves the
\* player 5 and deactivates the waypoint
C9_Witness ==
    /\ ticks = 1
    /\ player = [x |-> PlayerStartX + 5, y |-> ScreenHeight \div 2]
    /\ waypoint = [x |-> PlayerStartX + 3, y |-> ScreenHeight \div 2,
                   active |-> FALSE]

\* C10: an enemy added after a game_over call is never updated, and once
\* there is one, no text is created and the session's flag stays as it is.
C10_InertAfterTerminal ==
    /\ [](pc <= liveCount)
    /\ [][/\ \A i \in (liveCount + 1)..Len(elements) :
                i <= Len(elements') /\ elements'[i] = elements[i]
          /\ Len(elements) > liveCount
                => (banners' = banners /\ is_started' = is_started)]_vars

\* C10's case: won or lost, and then a callback has added an enemy
C10_Witness ==
    /\ Terminal
    /\ Len(elements) > liveCount

\* C11: the cross enemy never divides by a zero hypotenuse.  On every canvas
\* and in every reachable state, an update that takes the dividing branch has
\* a vertical distance of at least 10 to its target edge and so a strictly
\* positive hypotenuse; no update has raised ZeroDivisionError.
C11_HypotenusePositive ==
    probe.kind = "cross" =>
        /\ probe.e.state \in {"down", "up"}
        /\ CrossEnemy_divides(probe.e, probe.w, probe.h) =>
              LET d == CrossEnemy_delta(probe.e, probe.w, probe.h)
              IN  d.y >= 10 /\ d.hypotenuse > 0

\* the enemy travelled to its target corner and was updated there
C11_Witness ==
    /\ probe.kind = "cross"
    /\ probe.h >= 10
    /\ probe.from.kind = "cross"
    /\ probe.from.state = "down"
    /\ probe.from.x = probe.w /\ probe.from.y = probe.h
    /\ probe.e.state = "up"

\* the step of a click, and the step of a timer callback
ClickStep == clicks' = clicks + 1
FireStep == fired' # fired

\* C12: the waypoint is inactive at the start; it becomes active only by a
\* click, which also puts it on the clicked point; it becomes inactive only
\* by a Player.update that ends within speed of it; its position changes only
\* by a click; no enemy update and no spawn callback changes it.
C12_WaypointLifecycle ==
    /\ ~waypoint.active
    /\ [][ /\ (waypoint'.active /\ waypoint' # waypoint) =>
                /\ ClickStep
                /\ \E c \in ClickSample :
                      waypoint' = [x |-> c.x, y |-> c.y, active |-> TRUE]
           /\ (waypoint.active /\ ~waypoint'.active) =>
                /\ PlayerStep
                /\ waypoint'.x = waypoint.x /\ waypoint'.y = waypoint.y
                /\ DistSq(player'.x, player'.y, waypoint.x, waypoint.y)
                     < PlayerSpeed * PlayerSpeed
           /\ (~waypoint.active /\ ~waypoint'.active) => waypoint' = waypoint
           /\ (pc >= 1 \/ FireStep) => waypoint' = waypoint
         ]_vars

\* a click put the waypoint on (53, 67), the player arrived and the waypoint
\* went inactive there, enemies being on the canvas
C12_Witness ==
    /\ clicks = 1
    /\ ~waypoint.active
    /\ waypoint.x = 53 /\ waypoint.y = 67
    /\ elements # <<>>
    /\ pc = 0

\* the state that follows a state in the fencing enemy's cycle
FenceSucc(st) ==
    CASE st = "right" -> "up" [] st = "up" -> "left"
      [] st = "left" -> "down" [] st = "down" -> "right"

\* where an update may leave a state
FenceMayLeave(e) ==
    CASE e.state = "right" -> e.x >= HomeX + 20
      [] e.state = "up"    -> e.y <= HomeY - 20
      [] e.state = "left"  -> e.x <= HomeX - 20
      [] e.state = "down"  -> e.y >= HomeY + 20

\* C13: the fencing enemy starts in move-right; an update changes its state
\* only to the next of right, up, left, down, right, only where the enemy is
\* at or past the 20 line of the state it leaves, and then does not move it;
\* while the session is not over every one of the four states is entered
\* again and again.
C13_FenceCycle ==
    /\ probe.e.state = "right"
    /\ [][LoneStep("fencing") =>
            LET e == probe.e
                m == probe'.e
            IN  IF m.state # e.state
                THEN /\ m.state = FenceSucc(e.state)
                     /\ FenceMayLeave(e)
                     /\ m.x = e.x /\ m.y = e.y
                ELSE ~FenceMayLeave(e)
         ]_vars
    /\ \A st \in {"right", "up", "left", "down"} :
          []<>(Terminal \/ (probe.e.state = st /\ probe.from.kind = "fencing"
                              /\ probe.from.state # st))

\* the enemy went round once: it entered move-right from move-down
C13_Witness ==
    /\ probe.kind = "fencing"
    /\ probe.from.kind = "fencing"
    /\ probe.from.state = "down"
    /\ probe.e.state = "right"

\* a coordinate went from c to c2 toward t by min(speed, remaining), not past t
StepToward(c, c2, t, speed) ==
    /\ Abs(c2 - c) = Min(speed, Abs(t - c))
    /\ (c <= c2 /\ c2 <= t) \/ (t <= c2 /\ c2 <= c)
    /\ c = t => c2 = c

\* C14: the random-walk enemy never overshoots.  In every update each
\* coordinate moves toward the destination of that update by exactly
\* min(speed, remaining distance), ends between its previous value and the
\* destination, and does not change where it already equals the destination.
C14_WalkNoOvershoot ==
    [][LoneStep("random") =>
          LET e == probe.e
              m == probe'.e
          IN  /\ StepToward(e.x, m.x, m.tx, e.speed)
              /\ StepToward(e.y, m.y, m.ty, e.speed)
      ]_vars

\* an update moved the enemy by less than its speed, onto its destination's x
C14_Witness ==
    /\ probe.kind = "random"
    /\ probe.from.kind = "random"
    /\ probe.e.x # probe.from.x
    /\ Abs(probe.e.x - probe.from.x) < probe.e.speed
    /\ probe.e.x = probe.e.tx
    /\ probe.e.y # probe.e.ty

\* C15: the random-walk enemy's destination changes only in an update that
\* begins with the enemy exactly on it; that update draws a destination on the
\* canvas (0 <= x <= width, 0 <= y <= height) and moves the enemy toward the
\* new one; every other update leaves the destination as it was.
C15_WalkDestination ==
    [][LoneStep("random") =>
          LET e == probe.e
              m == probe'.e
          IN  IF e.x = e.tx /\ e.y = e.ty
              THEN /\ 0 <= m.tx /\ m.tx <= ScreenWidth
                   /\ 0 <= m.ty /\ m.ty <= ScreenHeight
                   /\ StepToward(e.x, m.x, m.tx, e.speed)
                   /\ StepToward(e.y, m.y, m.ty, e.speed)
              ELSE m.tx = e.tx /\ m.ty = e.ty
      ]_vars

\* an update began on the destination, drew another one and moved toward it
C15_Witness ==
    /\ probe.kind = "random"
    /\ probe.from.kind = "random"
    /\ probe.from.x = probe.from.tx /\ probe.from.y = probe.from.ty
    /\ probe.e.tx # probe.from.tx
    /\ probe.e.x # probe.from.x

\* C16: the chasing enemy keeps no target of its own.  Its speed is 2 in
\* every state; every update of it reads the player's position of that
\* moment, the player's own move of the same pass included, and moves each
\* coordinate toward it by min(2, remaining distance), never past it, so the
\* distance on an axis to the player never grows by the enemy's update.
C16_ChaseCurrentPlayer ==
    /\ [](\A i \in 1..Len(elements) :
            elements[i].kind = "chasing" => elements[i].speed = 2)
    /\ [][(pc >= 1 /\ elements[pc].kind = "chasing") =>
            LET e == elements[pc]
                m == elements'[pc]
            IN  /\ player' = player
                /\ StepToward(e.x, m.x, player.x, 2)
                /\ StepToward(e.y, m.y, player.y, 2)
                /\ Abs(player.x - m.x) <= Abs(player.x - e.x)
                /\ Abs(player.y - m.y) <= Abs(player.y - e.y)
         ]_vars

\* in a pass in which the player moved, a chasing enemy was updated toward
\* the player's new place and the next one has not been updated yet
C16_Witness ==
    /\ pc >= 2
    /\ elements[pc].kind = "chasing"
    /\ elements[pc].tx # player.x
    /\ \E i \in 1..(pc - 1) :
          /\ elements[i].kind = "chasing"
          /\ elements[i].tx = player.x /\ elements[i].ty = player.y
          /\ elements[i].x # 91

\* the speeds a border leaves of speed s: s times 1.0 or times 1.1
Bounced(s) == {s, (11 * s) \div 10}

\* C17: a patrol enemy's update whose horizontal step leaves x < 0 or
\* x > width flips the x-state in that update and multiplies the speed by 1.0
\* or 1.1, and likewise for y against the height; the x-state changes by
\* nothing else, the y-state neither, and the speed never decreases.
C17_PatrolBounce ==
    [][LoneStep("patrol") =>
          LET e == probe.e
              m == probe'.e
              x1 == IF e.x_state = "right" THEN e.x + e.speed
                                           ELSE e.x - e.speed
              outx == x1 < 0 \/ x1 > probe.w * PatrolUnit
          IN  /\ m.x = x1
              /\ m.x_state # e.x_state <=> outx
              /\ m.x_state \in {"right", "left"}
              /\ m.y_state \in {"down", "up"}
              /\ \E s1 \in (IF outx THEN Bounced(e.speed) ELSE {e.speed}) :
                    LET y1 == IF e.y_state = "down" THEN e.y + s1
                                                    ELSE e.y - s1
                        outy == y1 < 0 \/ y1 > probe.h * PatrolUnit
                    IN  /\ m.y = y1
                        /\ m.y_state # e.y_state <=> outy
                        /\ m.speed \in (IF outy THEN Bounced(s1) ELSE {s1})
              /\ m.speed >= e.speed
      ]_vars

\* the enemy was on the right edge moving right with speed 4; after the
\* update it moves left with a speed of at least 4
C17_Witness ==
    /\ probe.kind = "patrol"
    /\ probe.from.kind = "patrol"
    /\ probe.w > 0
    /\ probe.from.x = probe.w * PatrolUnit
    /\ probe.from.x_state = "right"
    /\ probe.from.speed = 4 * PatrolUnit
    /\ probe.e.x_state = "left"
    /\ probe.e.speed >= 4 * PatrolUnit

\* the move from (x, y) to (x2, y2) has length speed and points at (cx, cy)
AlongUnitVector(x, y, x2, y2, cx, cy, speed) ==
    LET sx == x2 - x
        sy == y2 - y
    IN  /\ sx * sx + sy * sy = speed * speed
        /\ sx * (cy - y) = sy * (cx - x)
        /\ sx * (cx - x) + sy * (cy - y) > 0

\* C18: the cross enemy starts on (0, 0) in move-down-right.  In
\* move-down-right an update with height - y < 10 puts it on (0, height) and
\* switches to move-up-right; in move-up-right an update with y < 10 puts it
\* on (0, 0) and switches to move-down-right; every other update keeps the
\* state and advances the enemy by speed along the unit vector toward the far
\* corner, (width, height) going down and (width, 0) going up.
C18_CrossStateMachine ==
    /\ probe.e.state = "down" /\ probe.e.x = 0 /\ probe.e.y = 0
    /\ [][LoneStep("cross") =>
            LET e == probe.e
                m == probe'.e
                W == probe.w
                H == probe.h
            IN  CASE e.state = "down" /\ H - e.y < 10 ->
                       m.x = 0 /\ m.y = H /\ m.state = "up"
                  [] e.state = "up" /\ e.y < 10 ->
                       m.x = 0 /\ m.y = 0 /\ m.state = "down"
                  [] OTHER ->
                       /\ m.state = e.state
                       /\ AlongUnitVector(e.x, e.y, m.x, m.y, W,
                                          IF e.state = "down" THEN H ELSE 0,
                                          e.speed)
         ]_vars

\* the enemy went down the diagonal, was put on (0, height) and has advanced
\* toward (width, 0)
C18_Witness ==
    /\ probe.kind = "cross"
    /\ probe.e.state = "up"
    /\ probe.from.kind = "cross"
    /\ probe.from.state = "up"
    /\ probe.e.x > probe.from.x
    /\ probe.e.y < probe.from.y

\* the last banner text created by the step, "" where it created none
NewBanner ==
    IF Len(banners') > Len(banners) THEN banners'[Len(banners')] ELSE ""

\* C19: the win is found one update after the move.  A Player.update that
\* begins outside Home declares nothing, also where it steps into Home;
\* "You Win" is made only by a Player.update that begins inside Home; and an
\* enemy whose hit-box holds the player after its move makes the session
\* lost, also where the player is inside Home.
C19_WinLagsMove ==
    [][ /\ (PlayerStep /\ ~Home_contains(player.x, player.y)) =>
                banners' = banners /\ is_started' = is_started
        /\ NewBanner = "You Win" =>
                PlayerStep /\ Home_contains(player.x, player.y)
        /\ (pc >= 1 /\ Home_contains(player.x, player.y)
                    /\ hits_player(elements'[pc], player)) =>
                NewBanner = "You Lose" /\ ~is_started'
      ]_vars

\* the player stepped into Home, an enemy of the same pass hit it there: the
\* session is lost and not won, the player inside Home
C19_Witness ==
    /\ Lost /\ ~Won
    /\ Home_contains(player.x, player.y)
    /\ ticks >= 1

\* the larger of two numbers
Max(a, b) == IF a >= b THEN a ELSE b

\* the whole points inside Home
HomePoints ==
    { p \in [x : (HomeX - HomeSize)..(HomeX + HomeSize),
             y : (HomeY - HomeSize)..(HomeY + HomeSize)] :
        Home_contains(p.x, p.y) }

\* C20: in every reachable state of a fencing enemy its offset from Home's
\* centre keeps 18 <= max(|x - home.x|, |y - home.y|) <= 22, and so its
\* hits_player is false for every position of the player inside Home.
C20_FenceOutsideHome ==
    probe.kind = "fencing" =>
        LET e == probe.e
            off == Max(Abs(e.x - HomeX), Abs(e.y - HomeY))
        IN  /\ 18 <= off /\ off <= 22
            /\ \A p \in HomePoints : ~hits_player(e, p)

\* the enemy has gone from the nearest spawn point, offset 18, to the far
\* side of Home at offset 22
C20_Witness ==
    /\ probe.kind = "fencing"
    /\ probe.e.state = "left"
    /\ probe.e.y = HomeY - 22
    /\ probe.e.x = HomeX - 22
    /\ probe.e.speed = 3

\* the most Player.update calls a waypoint at distance d stays active for
ArriveBound(d) == Max(2, CeilDiv(d, PlayerSpeed))

\* C21: a waypoint activated at distance d from the player is deactivated by
\* Player.update after at most max(2, ceil(d / speed)) player updates, unless
\* another click comes or the session ends first: the player does not step
\* back and forth across the target forever.
C21_WaypointReached ==
    /\ [](probe.kind = "arrive" =>
            /\ probe.n <= ArriveBound(probe.d)
            /\ waypoint.active => probe.n < ArriveBound(probe.d))
    /\ [](waypoint.active => <>(~waypoint.active \/ Terminal))

\* a click on the player's own place: the waypoint went inactive by the
\* second update after it
C21_Witness ==
    /\ probe.kind = "arrive"
    /\ clicks >= 1
    /\ probe.d = 0
    /\ probe.n = 2
    /\ ~waypoint.active
    /\ ~Terminal

\* the updates it takes from (x, y) to (tx, ty): ceil(max(|dx|, |dy|) / speed)
UpdatesLeft(x, y, tx, ty, speed) ==
    CeilDiv(Max(Abs(tx - x), Abs(ty - y)), speed)

\* the enemy is on its destination
WalkAtDest(e) == e.x = e.tx /\ e.y = e.ty

\* C22: a random-walk enemy reaches its destination exactly within
\* ceil(max(|dx|, |dy|) / speed) of its updates: every update takes one off
\* the updates left to the destination it moves to, the update that draws a
\* destination included; so, while the session is not over, the enemy is on
\* its destination again and again and draws a new one again and again.
C22_WalkReaches ==
    /\ [][LoneStep("random") =>
            LET e == probe.e
                m == probe'.e
                left == UpdatesLeft(e.x, e.y, m.tx, m.ty, e.speed)
            IN  /\ ~WalkAtDest(e) => m.tx = e.tx /\ m.ty = e.ty
                /\ UpdatesLeft(m.x, m.y, m.tx, m.ty, m.speed)
                     = Max(0, left - 1)
                /\ left <= 1 => WalkAtDest(m)
         ]_vars
    /\ [](probe.kind = "random" => probe.e.speed >= 1)
    /\ []<>(Terminal \/ WalkAtDest(probe.e))
    /\ []<>(Terminal \/ (probe.from.kind = "random" /\ WalkAtDest(probe.from)))

\* the enemy walked more than one update to a destination off both of its
\* axes and stands on it
C22_Witness ==
    /\ probe.kind = "random"
    /\ probe.from.kind = "random"
    /\ WalkAtDest(probe.e)
    /\ ~WalkAtDest(probe.from)
    /\ probe.e.x # probe.from.x /\ probe.e.y # probe.from.y
    /\ Abs(probe.e.x - probe.from.x) # Abs(probe.e.y - probe.from.y)
    /\ ~Terminal

====
